---- MODULE Spec2Model ----
(***************************************************************************)
(* Model of strategies.py: the static evaluator (piece-square tables,      *)
(* check_end_game, evaluate_board), the alpha-beta search (minimax,        *)
(* minimax_root), the opening book (is_equivalent, move_from_book) and     *)
(* the move selector (search, search_with_ponder).                         *)
(*                                                                         *)
(* The engine is single-threaded and synchronous, so every operation is    *)
(* one action that performs the whole call.  Each function of the source   *)
(* is an operator that threads the mutable chess.Board through its         *)
(* statements and returns the returned value, the board as the call        *)
(* leaves it, and the log of the rules-engine calls it made.               *)
(***************************************************************************)
EXTENDS Integers, Sequences, FiniteSets, TLC

(***************************************************************************)
(* python-chess constants.                                                 *)
(***************************************************************************)
PAWN == 1
KNIGHT == 2
BISHOP == 3
ROOK == 4
QUEEN == 5
KING == 6
WHITE == TRUE
BLACK == FALSE
SQUARES == 0..63
PieceTypes == PAWN..KING

\* chess.Piece; piece_at gives None on an empty square
Piece(t, c) == [piece_type |-> t, color |-> c]
None == [piece_type |-> 0, color |-> FALSE]
Pieces == {Piece(t, c) : t \in PieceTypes, c \in BOOLEAN}

\* float("inf"): above every value evaluate_board can produce
Inf == 1000000000

max(a, b) == IF a >= b THEN a ELSE b
min(a, b) == IF a <= b THEN a ELSE b

\* a table with its ranks in reverse order and the files of a rank in place
reversed_ranks(t) == [i \in 1..Len(t) |-> t[8 * (7 - ((i - 1) \div 8)) + ((i - 1) % 8) + 1]]

\* list(reversed(t)) of a 64-entry list
reversed(t) == [i \in 1..Len(t) |-> t[Len(t) + 1 - i]]

(***************************************************************************)
(* Piece-square tables; Python index s is TLA+ index s + 1.                *)
(***************************************************************************)
pawnWhiteTable ==
    << 0,  0,  0,  0,  0,  0,  0,  0,
       50, 50, 50, 50, 50, 50, 50, 50,
       10, 10, 20, 30, 30, 20, 10, 10,
       5,  5, 10, 25, 25, 10,  5,  5,
       0,  0,  0, 20, 20,  0,  0,  0,
       5, -5,-10,  0,  0,-10, -5,  5,
       5, 10, 10,-20,-20, 10, 10,  5,
       0,  0,  0,  0,  0,  0,  0,  0 >>

pawnBlackTable == reversed(pawnWhiteTable)

knightWhiteTable ==
    << -50,-40,-30,-30,-30,-30,-40,-50,
       -40,-20,  0,  0,  0,  0,-20,-40,
       -30,  0, 10, 15, 15, 10,  0,-30,
       -30,  5, 15, 20, 20, 15,  5,-30,
       -30,  0, 15, 20, 20, 15,  0,-30,
       -30,  5, 10, 15, 15, 10,  5,-30,
       -40,-20,  0,  5,  5,  0,-20,-40,
       -50,-40,-30,-30,-30,-30,-40,-50 >>

knightBlackTable == reversed(knightWhiteTable)

bishopWhiteTable ==
    << -20,-10,-10,-10,-10,-10,-10,-20,
       -10,  0,  0,  0,  0,  0,  0,-10,
       -10,  0,  5, 10, 10,  5,  0,-10,
       -10,  5,  5, 10, 10,  5,  5,-10,
       -10,  0, 10, 10, 10, 10,  0,-10,
       -10, 10, 10, 10, 10, 10, 10,-10,
       -10,  5,  0,  0,  0,  0,  5,-10,
       -20,-10,-10,-10,-10,-10,-10,-20 >>

bishopBlackTable == reversed(bishopWhiteTable)

rookWhiteTable ==
    << 0,  0,  0,  0,  0,  0,  0,  0,
       5, 10, 10, 10, 10, 10, 10,  5,
       -5,  0,  0,  0,  0,  0,  0, -5,
       -5,  0,  0,  0,  0,  0,  0, -5,
       -5,  0,  0,  0,  0,  0,  0, -5,
       -5,  0,  0,  0,  0,  0,  0, -5,
       -5,  0,  0,  0,  0,  0,  0, -5,
       0,  0,  0,  5,  5,  0,  0,  0 >>

rookBlackTable == reversed(rookWhiteTable)

queenWhiteTable ==
    << -20,-10,-10, -5, -5,-10,-10,-20,
       -10,  0,  0,  0,  0,  0,  0,-10,
       -10,  0,  5,  5,  5,  5,  0,-10,
       -5,  0,  5,  5,  5,  5,  0, -5,
       0,  0,  5,  5,  5,  5,  0, -5,
       -10,  5,  5,  5,  5,  5,  0,-10,
       -10,  0,  5,  0,  0,  0,  0,-10,
       -20,-10,-10, -5, -5,-10,-10,-20 >>

queenBlackTable == reversed(queenWhiteTable)

kingWhiteMiddlegameTable ==
    << -30,-40,-40,-50,-50,-40,-40,-30,
       -30,-40,-40,-50,-50,-40,-40,-30,
       -30,-40,-40,-50,-50,-40,-40,-30,
       -30,-40,-40,-50,-50,-40,-40,-30,
       -20,-30,-30,-40,-40,-30,-30,-20,
       -10,-20,-20,-20,-20,-20,-20,-10,
       20, 20,  0,  0,  0,  0, 20, 20,
       20, 30, 10,  0,  0, 10, 30, 20 >>

kingBlackMiddlegameTable == reversed(kingWhiteMiddlegameTable)

kingWhiteEndgameTable ==
    << -50,-40,-30,-20,-20,-30,-40,-50,
       -30,-20,-10,  0,  0,-10,-20,-30,
       -30,-10, 20, 30, 30, 20,-10,-30,
       -30,-10, 30, 40, 40, 30,-10,-30,
       -30,-10, 30, 40, 40, 30,-10,-30,
       -30,-10, 20, 30, 30, 20,-10,-30,
       -30,-30,  0,  0,  0,  0,-30,-30,
       -50,-30,-30,-30,-30,-30,-30,-50 >>

kingBlackEndgameTable == reversed(kingWhiteEndgameTable)

(***************************************************************************)
(* State.                                                                  *)
(*   board  the chess.Board the host hands to the engine                   *)
(*   rules  the answers of the rules engine (python-chess) that the engine *)
(*          treats as given: which moves are legal, which positions are    *)
(*          checkmate, otherwise game over, or allow a draw claim          *)
(*   call   the last engine operation invoked, with its arguments and the  *)
(*          board as it was when the call began                            *)
(*   ret    the value that call returned                                   *)
(*   log    the rules-engine and evaluator calls made during that call     *)
(***************************************************************************)
VARIABLES board, rules, call, ret, log

vars == <<board, rules, call, ret, log>>

(***************************************************************************)
(* chess.Board as the engine uses it.                                      *)
(***************************************************************************)
square_file(s) == s % 8
square_rank(s) == s \div 8

\* chess.Move, and the UCI identifier it round-trips with
Move(f, t) == [from_square |-> f, to_square |-> t]

piece_at(b, square) == b.placement[square]

\* the part of a board that push saves and pop restores
BoardState(b) ==
    [placement |-> b.placement, turn |-> b.turn,
     castling_rights |-> b.castling_rights, ep_square |-> b.ep_square,
     halfmove_clock |-> b.halfmove_clock,
     fullmove_number |-> b.fullmove_number]

\* a board set up from a placement, with no history
SetUp(pl, turn, rights, fullmove) ==
    [placement |-> pl, turn |-> turn, castling_rights |-> rights,
     ep_square |-> -1, halfmove_clock |-> 0, fullmove_number |-> fullmove,
     move_stack |-> <<>>, stack |-> <<>>]

Abs(x) == IF x < 0 THEN -x ELSE x

\* board.push(move): relocate the piece (capture, en passant, castling),
\* update the rights and counters, flip the side to move, and remember the
\* previous state.  Promotions do not occur in the modelled games.
push(b, m) ==
    LET f == m.from_square
        t == m.to_square
        p == b.placement[f]
        diff == t - f
        isPawn == p.piece_type = PAWN
        isKing == p.piece_type = KING
        isEp == /\ isPawn
                /\ t = b.ep_square
                /\ Abs(diff) \in {7, 9}
                /\ b.placement[t] = None
        isCapture == b.placement[t] # None \/ isEp
        isCastle == isKing /\ Abs(diff) = 2 /\ square_rank(f) = square_rank(t)
        rookFrom == IF diff > 0 THEN f + 3 ELSE f - 4
        rookTo == IF diff > 0 THEN f + 1 ELSE f - 1
        epVictim == IF b.turn = WHITE THEN t - 8 ELSE t + 8
        backRank == IF b.turn = WHITE THEN 0..7 ELSE 56..63
        moved == [b.placement EXCEPT ![f] = None, ![t] = p]
        pl1 == IF isEp THEN [moved EXCEPT ![epVictim] = None] ELSE moved
        pl2 == IF isCastle
               THEN [pl1 EXCEPT ![rookFrom] = None, ![rookTo] = b.placement[rookFrom]]
               ELSE pl1
        rights1 == b.castling_rights \ {f, t}
        rights2 == IF isKing THEN rights1 \ backRank ELSE rights1
        ep == IF isPawn /\ diff = 16 /\ square_rank(f) = 1 THEN f + 8
              ELSE IF isPawn /\ diff = -16 /\ square_rank(f) = 6 THEN f - 8
              ELSE -1
    IN  [placement |-> pl2,
         turn |-> ~b.turn,
         castling_rights |-> rights2,
         ep_square |-> ep,
         halfmove_clock |-> IF isPawn \/ isCapture THEN 0 ELSE b.halfmove_clock + 1,
         fullmove_number |-> IF b.turn = BLACK THEN b.fullmove_number + 1
                             ELSE b.fullmove_number,
         move_stack |-> Append(b.move_stack, m),
         stack |-> Append(b.stack, BoardState(b))]

\* board.pop(): restore the state saved by the matching push
pop(b) ==
    LET n == Len(b.stack)
        st == b.stack[n]
    IN  [placement |-> st.placement, turn |-> st.turn,
         castling_rights |-> st.castling_rights, ep_square |-> st.ep_square,
         halfmove_clock |-> st.halfmove_clock,
         fullmove_number |-> st.fullmove_number,
         move_stack |-> SubSeq(b.move_stack, 1, n - 1),
         stack |-> SubSeq(b.stack, 1, n - 1)]

(***************************************************************************)
(* The rules engine's answers.  The engine only enumerates legal_moves and *)
(* asks is_checkmate, is_game_over and can_claim_draw; the model fixes one *)
(* game per behaviour.  The pieces of the side to move whose type is in    *)
(* rules.movers may step by the offsets rules.steps (towards the opponent) *)
(* onto a square not held by their own side; rules.mate, rules.stalemate,  *)
(* rules.dead and rules.claim name the positions, by the moves played to   *)
(* reach them, that are checkmate, stalemate, otherwise over, or open to a *)
(* draw claim.                                                             *)
(***************************************************************************)
RECURSIVE SeqOfSet(_)
\* the elements of a finite set of integers in increasing order
SeqOfSet(S) ==
    IF S = {} THEN <<>>
    ELSE LET x == CHOOSE y \in S : \A z \in S : y <= z
         IN  <<x>> \o SeqOfSet(S \ {x})

RECURSIVE Concat(_)
Concat(ss) == IF ss = <<>> THEN <<>> ELSE Head(ss) \o Concat(Tail(ss))

\* the moves of the piece on f under the step offsets
StepTargets(b, f, steps) ==
    LET dir == IF b.turn = WHITE THEN 1 ELSE -1
        ok(d) == LET t == f + dir * d
                 IN  /\ t \in SQUARES
                     /\ Abs(square_file(t) - square_file(f)) <= 2
                     /\ ~(b.placement[t] # None /\ b.placement[t].color = b.turn)
        good == SelectSeq(steps, ok)
    IN  [i \in 1..Len(good) |-> Move(f, f + dir * good[i])]

\* the moves of the side to move, by from-square, then by step
StepMoves(b, steps, movers) ==
    LET own == {s \in SQUARES : /\ b.placement[s] # None
                                /\ b.placement[s].color = b.turn
                                /\ b.placement[s].piece_type \in movers}
        froms == SeqOfSet(own)
    IN  Concat([i \in 1..Len(froms) |-> StepTargets(b, froms[i], steps)])

\* list(board.legal_moves), in the rules engine's order
legal_moves(b) ==
    IF b.move_stack \in rules.mate \cup rules.stalemate THEN <<>>
    ELSE StepMoves(b, rules.steps, rules.movers)

is_checkmate(b) == b.move_stack \in rules.mate

\* checkmate, no legal move left (stalemate), or a dead position
is_game_over(b) ==
    \/ b.move_stack \in rules.mate \cup rules.dead
    \/ legal_moves(b) = <<>>

can_claim_draw(b) == b.move_stack \in rules.claim

(***************************************************************************)
(* Static evaluation.                                                      *)
(***************************************************************************)
\* check_end_game with the two-queen test loosened to "at most two"
check_end_game_atmost2(b) ==
    LET queens == Cardinality({square \in SQUARES :
                      /\ piece_at(b, square) # None
                      /\ piece_at(b, square).piece_type = QUEEN})
        minors == Cardinality({square \in SQUARES :
                      /\ piece_at(b, square) # None
                      /\ \/ piece_at(b, square).piece_type = BISHOP
                         \/ piece_at(b, square).piece_type = KNIGHT})
    IN  queens = 0 \/ (queens <= 2 /\ minors <= 1)

check_end_game(b) ==
    LET queens == Cardinality({square \in SQUARES :
                      /\ piece_at(b, square) # None
                      /\ piece_at(b, square).piece_type = QUEEN})
        minors == Cardinality({square \in SQUARES :
                      /\ piece_at(b, square) # None
                      /\ \/ piece_at(b, square).piece_type = BISHOP
                         \/ piece_at(b, square).piece_type = KNIGHT})
    IN  queens = 0 \/ (queens = 2 /\ minors <= 1)

piece_value(piece) ==
    IF piece = None THEN 0
    ELSE IF piece.piece_type = PAWN THEN 100
    ELSE IF piece.piece_type = KNIGHT THEN 320
    ELSE IF piece.piece_type = BISHOP THEN 330
    ELSE IF piece.piece_type = ROOK THEN 500
    ELSE IF piece.piece_type = QUEEN THEN 900
    ELSE IF piece.piece_type = KING THEN 200000
    ELSE 0

\* the table selection with the phases of the king's table exchanged
mapping_phases_exchanged(piece, endgame) ==
    IF piece.piece_type = PAWN
    THEN (IF piece.color = WHITE THEN pawnWhiteTable ELSE pawnBlackTable)
    ELSE IF piece.piece_type = KNIGHT
    THEN (IF piece.color = WHITE THEN knightWhiteTable ELSE knightBlackTable)
    ELSE IF piece.piece_type = BISHOP
    THEN (IF piece.color = WHITE THEN bishopWhiteTable ELSE bishopBlackTable)
    ELSE IF piece.piece_type = ROOK
    THEN (IF piece.color = WHITE THEN rookWhiteTable ELSE rookBlackTable)
    ELSE IF piece.piece_type = QUEEN
    THEN (IF piece.color = WHITE THEN queenWhiteTable ELSE queenBlackTable)
    ELSE IF endgame
    THEN (IF piece.color = WHITE THEN kingWhiteMiddlegameTable
                                 ELSE kingBlackMiddlegameTable)
    ELSE (IF piece.color = WHITE THEN kingWhiteEndgameTable
                                 ELSE kingBlackEndgameTable)

\* the table eval_piece selects for a piece
mapping(piece, endgame) ==
    IF piece.piece_type = PAWN
    THEN (IF piece.color = WHITE THEN pawnWhiteTable ELSE pawnBlackTable)
    ELSE IF piece.piece_type = KNIGHT
    THEN (IF piece.color = WHITE THEN knightWhiteTable ELSE knightBlackTable)
    ELSE IF piece.piece_type = BISHOP
    THEN (IF piece.color = WHITE THEN bishopWhiteTable ELSE bishopBlackTable)
    ELSE IF piece.piece_type = ROOK
    THEN (IF piece.color = WHITE THEN rookWhiteTable ELSE rookBlackTable)
    ELSE IF piece.piece_type = QUEEN
    THEN (IF piece.color = WHITE THEN queenWhiteTable ELSE queenBlackTable)
    ELSE IF endgame
    THEN (IF piece.color = WHITE THEN kingWhiteEndgameTable
                                 ELSE kingBlackEndgameTable)
    ELSE (IF piece.color = WHITE THEN kingWhiteMiddlegameTable
                                 ELSE kingBlackMiddlegameTable)

eval_piece(piece, square, endgame) ==
    IF piece = None THEN 0 ELSE mapping(piece, endgame)[square + 1]

\* what the body of the loop of evaluate_board adds to total at a square
square_score(b, square, endgame) ==
    LET piece == piece_at(b, square)
        value == piece_value(piece) + eval_piece(piece, square, endgame)
    IN  IF piece = None THEN 0
        ELSE IF piece.color = WHITE THEN value ELSE -value

RECURSIVE evaluate_range(_, _, _, _)
\* the total the loop of evaluate_board accumulates over the squares
\* lo..hi, summed by halves; check_end_game is pure, so its value is the
\* same at every occupied square
evaluate_range(b, lo, hi, endgame) ==
    IF lo = hi THEN square_score(b, lo, endgame)
    ELSE evaluate_range(b, lo, (lo + hi) \div 2, endgame)
         + evaluate_range(b, (lo + hi) \div 2 + 1, hi, endgame)

evaluate_board(b) == evaluate_range(b, 0, 63, check_end_game(b))

(***************************************************************************)
(* Search.  A call's result is the returned value, the board as the call   *)
(* leaves it, the log of what it did, and the exception it raised, if any. *)
(***************************************************************************)
Result(v, b, lg, err) == [value |-> v, board |-> b, log |-> lg, error |-> err]

\* one log entry: what was done, on the position of which move stack (of
\* ply moves, turn to move), and the depth and role of the minimax call
\* that did it
Ev(op, b, depth, maxi) ==
    [op |-> op, ply |-> Len(b.move_stack), path |-> b.move_stack,
     turn |-> b.turn, depth |-> depth, maxi |-> maxi]

\* Python values the selector handles: None, a UCI string, a chess.Move
PyNone == [type |-> "NoneType"]
PyStr(uci) == [type |-> "str", uci |-> uci]
PyMove(m) == [type |-> "Move", move |-> m]

RECURSIVE minimax(_, _, _, _, _)
RECURSIVE minimax_max(_, _, _, _, _, _, _, _)
RECURSIVE minimax_min(_, _, _, _, _, _, _, _)

\* minimax_max_update with board.pop() placed after the cutoff test
minimax_max_update_nopop(depth, alpha, beta, moves, i, best_move, lg, r) ==
    LET best1 == max(best_move, r.value)
        alpha1 == max(alpha, best1)
        b2 == pop(r.board)
        lg1 == lg \o r.log
    IN  IF beta <= alpha1
        THEN Result(best1, r.board,
                    Append(lg1, Ev("cutoff", r.board, depth, TRUE)), "none")
        ELSE minimax_max(depth, b2, alpha1, beta, moves, i + 1, best1,
                         Append(lg1, Ev("pop", b2, depth, TRUE)))

\* minimax_max_update with the cutoff comparison inverted
minimax_max_update_inverted(depth, alpha, beta, moves, i, best_move, lg, r) ==
    LET best1 == max(best_move, r.value)
        b2 == pop(r.board)
        lg2 == Append(lg \o r.log, Ev("pop", b2, depth, TRUE))
        alpha1 == max(alpha, best1)
    IN  IF alpha1 <= beta
        THEN Result(best1, b2, Append(lg2, Ev("cutoff", b2, depth, TRUE)), "none")
        ELSE minimax_max(depth, b2, alpha1, beta, moves, i + 1, best1, lg2)

\* the maximising loop once the recursive call on move number i has
\* returned r: best_move, board.pop(), alpha, and the cutoff test
minimax_max_update(depth, alpha, beta, moves, i, best_move, lg, r) ==
    LET best1 == max(best_move, r.value)
        b2 == pop(r.board)
        lg2 == Append(lg \o r.log, Ev("pop", b2, depth, TRUE))
        alpha1 == max(alpha, best1)
    IN  IF beta <= alpha1
        THEN Result(best1, b2, Append(lg2, Ev("cutoff", b2, depth, TRUE)), "none")
        ELSE minimax_max(depth, b2, alpha1, beta, moves, i + 1, best1, lg2)

\* the maximising loop once move number i has been pushed, giving b1
minimax_max_pushed(depth, b1, alpha, beta, moves, i, best_move, lg) ==
    minimax_max_update(depth, alpha, beta, moves, i, best_move,
                       Append(lg, Ev("push", b1, depth, TRUE)),
                       minimax(depth - 1, b1, alpha, beta, FALSE))

\* the loop of the maximising branch from move number i on
minimax_max(depth, b, alpha, beta, moves, i, best_move, lg) ==
    IF i > Len(moves) THEN Result(best_move, b, lg, "none")
    ELSE minimax_max_pushed(depth, push(b, moves[i]), alpha, beta, moves, i,
                            best_move, lg)

\* the minimising update leaving through the cutoff with the move still
\* applied
minimax_min_update_cutoff_unpopped(depth, alpha, beta, moves, i, best_move, lg, r) ==
    LET best1 == min(best_move, r.value)
        b2 == pop(r.board)
        lg2 == Append(lg \o r.log, Ev("pop", b2, depth, FALSE))
        beta1 == min(beta, best1)
    IN  IF beta1 <= alpha
        THEN Result(best1, r.board,
                    Append(lg \o r.log, Ev("cutoff", r.board, depth, FALSE)), "none")
        ELSE minimax_min(depth, b2, alpha, beta1, moves, i + 1, best1, lg2)

\* the minimising loop once the recursive call on move number i has
\* returned r: best_move, board.pop(), beta, and the cutoff test
minimax_min_update(depth, alpha, beta, moves, i, best_move, lg, r) ==
    LET best1 == min(best_move, r.value)
        b2 == pop(r.board)
        lg2 == Append(lg \o r.log, Ev("pop", b2, depth, FALSE))
        beta1 == min(beta, best1)
    IN  IF beta1 <= alpha
        THEN Result(best1, b2, Append(lg2, Ev("cutoff", b2, depth, FALSE)), "none")
        ELSE minimax_min(depth, b2, alpha, beta1, moves, i + 1, best1, lg2)

\* the minimising loop once move number i has been pushed, giving b1
minimax_min_pushed(depth, b1, alpha, beta, moves, i, best_move, lg) ==
    minimax_min_update(depth, alpha, beta, moves, i, best_move,
                       Append(lg, Ev("push", b1, depth, FALSE)),
                       minimax(depth - 1, b1, alpha, beta, TRUE))

\* the loop of the minimising branch from move number i on
minimax_min(depth, b, alpha, beta, moves, i, best_move, lg) ==
    IF i > Len(moves) THEN Result(best_move, b, lg, "none")
    ELSE minimax_min_pushed(depth, push(b, moves[i]), alpha, beta, moves, i,
                            best_move, lg)

\* the log entries a minimax call starts with
Entry(depth, b, maxi) == <<Ev("minimax", b, depth, maxi)>>

\* minimax with the depth test ahead of the terminal tests
minimax_depth_first(depth, b, alpha, beta, is_maximising_player) ==
    IF depth = 0
    THEN Result(evaluate_board(b), b,
                Append(Entry(depth, b, is_maximising_player),
                       Ev("evaluate_board", b, depth, is_maximising_player)),
                "none")
    ELSE IF is_checkmate(b)
    THEN Result(IF is_maximising_player THEN -Inf ELSE Inf, b,
                Entry(depth, b, is_maximising_player), "none")
    ELSE IF is_game_over(b)
    THEN Result(0, b, Entry(depth, b, is_maximising_player), "none")
    ELSE IF is_maximising_player
    THEN minimax_max(depth, b, alpha, beta, legal_moves(b), 1, -Inf,
                     Append(Entry(depth, b, TRUE), Ev("legal_moves", b, depth, TRUE)))
    ELSE minimax_min(depth, b, alpha, beta, legal_moves(b), 1, Inf,
                     Append(Entry(depth, b, FALSE), Ev("legal_moves", b, depth, FALSE)))

\* minimax without the game-over branch
minimax_no_game_over(depth, b, alpha, beta, is_maximising_player) ==
    IF is_checkmate(b)
    THEN Result(IF is_maximising_player THEN -Inf ELSE Inf, b,
                Entry(depth, b, is_maximising_player), "none")
    ELSE IF depth = 0
    THEN Result(evaluate_board(b), b,
                Append(Entry(depth, b, is_maximising_player),
                       Ev("evaluate_board", b, depth, is_maximising_player)),
                "none")
    ELSE IF is_maximising_player
    THEN minimax_max(depth, b, alpha, beta, legal_moves(b), 1, -Inf,
                     Append(Entry(depth, b, TRUE), Ev("legal_moves", b, depth, TRUE)))
    ELSE minimax_min(depth, b, alpha, beta, legal_moves(b), 1, Inf,
                     Append(Entry(depth, b, FALSE), Ev("legal_moves", b, depth, FALSE)))

\* minimax scoring a leaf from the point of view of the side to move
minimax_leaf_negated(depth, b, alpha, beta, is_maximising_player) ==
    IF is_checkmate(b)
    THEN Result(IF is_maximising_player THEN -Inf ELSE Inf, b,
                Entry(depth, b, is_maximising_player), "none")
    ELSE IF is_game_over(b)
    THEN Result(0, b, Entry(depth, b, is_maximising_player), "none")
    ELSE IF depth = 0
    THEN Result(IF is_maximising_player THEN evaluate_board(b)
                                        ELSE -evaluate_board(b), b,
                Append(Entry(depth, b, is_maximising_player),
                       Ev("evaluate_board", b, depth, is_maximising_player)),
                "none")
    ELSE IF is_maximising_player
    THEN minimax_max(depth, b, alpha, beta, legal_moves(b), 1, -Inf,
                     Append(Entry(depth, b, TRUE), Ev("legal_moves", b, depth, TRUE)))
    ELSE minimax_min(depth, b, alpha, beta, legal_moves(b), 1, Inf,
                     Append(Entry(depth, b, FALSE), Ev("legal_moves", b, depth, FALSE)))

minimax(depth, b, alpha, beta, is_maximising_player) ==
    IF is_checkmate(b)
    THEN Result(IF is_maximising_player THEN -Inf ELSE Inf, b,
                Entry(depth, b, is_maximising_player), "none")
    ELSE IF is_game_over(b)
    THEN Result(0, b, Entry(depth, b, is_maximising_player), "none")
    ELSE IF depth = 0
    THEN Result(evaluate_board(b), b,
                Append(Entry(depth, b, is_maximising_player),
                       Ev("evaluate_board", b, depth, is_maximising_player)),
                "none")
    ELSE IF is_maximising_player
    THEN minimax_max(depth, b, alpha, beta, legal_moves(b), 1, -Inf,
                     Append(Entry(depth, b, TRUE), Ev("legal_moves", b, depth, TRUE)))
    ELSE minimax_min(depth, b, alpha, beta, legal_moves(b), 1, Inf,
                     Append(Entry(depth, b, FALSE), Ev("legal_moves", b, depth, FALSE)))

RECURSIVE minimax_root_loop(_, _, _, _, _, _, _, _)

\* the root update replacing the tracked best only on a strictly better value
minimax_root_update_strict(depth, maximize, moves, i, best_move, best_move_found, lg, r) ==
    LET value == r.value
        b2 == pop(r.board)
        lg2 == Append(lg \o r.log, Ev("pop", b2, depth, maximize))
    IN  IF maximize /\ value > best_move
        THEN minimax_root_loop(depth, b2, maximize, moves, i + 1,
                               value, moves[i], lg2)
        ELSE IF ~maximize /\ value < best_move
        THEN minimax_root_loop(depth, b2, maximize, moves, i + 1,
                               value, moves[i], lg2)
        ELSE minimax_root_loop(depth, b2, maximize, moves, i + 1,
                               best_move, best_move_found, lg2)

\* the root loop once the value of move number i is known and r.board is
\* the board the valuation left: board.pop(), then the comparison with the
\* best value so far
minimax_root_update(depth, maximize, moves, i, best_move, best_move_found, lg, r) ==
    LET value == r.value
        b2 == pop(r.board)
        lg2 == Append(lg \o r.log, Ev("pop", b2, depth, maximize))
    IN  IF maximize /\ value >= best_move
        THEN minimax_root_loop(depth, b2, maximize, moves, i + 1,
                               value, moves[i], lg2)
        ELSE IF ~maximize /\ value <= best_move
        THEN minimax_root_loop(depth, b2, maximize, moves, i + 1,
                               value, moves[i], lg2)
        ELSE minimax_root_loop(depth, b2, maximize, moves, i + 1,
                               best_move, best_move_found, lg2)

\* the root loop recursing on every root move, claimable draw or not
minimax_root_pushed_no_claim(depth, b1, maximize, moves, i, best_move, best_move_found, lg) ==
    minimax_root_update(depth, maximize, moves, i, best_move, best_move_found,
                        lg \o <<Ev("push", b1, depth, maximize),
                                Ev("can_claim_draw", b1, depth, maximize)>>,
                        minimax(depth - 1, b1, -Inf, Inf, ~maximize))

\* the root loop recursing with the depth it was given
minimax_root_pushed_same_depth(depth, b1, maximize, moves, i, best_move, best_move_found, lg) ==
    minimax_root_update(depth, maximize, moves, i, best_move, best_move_found,
                        lg \o <<Ev("push", b1, depth, maximize),
                                Ev("can_claim_draw", b1, depth, maximize)>>,
                        IF can_claim_draw(b1)
                        THEN Result(0, b1, <<>>, "none")
                        ELSE minimax(depth, b1, -Inf, Inf, ~maximize))

\* the root loop recursing in its own role
minimax_root_pushed_same_role(depth, b1, maximize, moves, i, best_move, best_move_found, lg) ==
    minimax_root_update(depth, maximize, moves, i, best_move, best_move_found,
                        lg \o <<Ev("push", b1, depth, maximize),
                                Ev("can_claim_draw", b1, depth, maximize)>>,
                        IF can_claim_draw(b1)
                        THEN Result(0, b1, <<>>, "none")
                        ELSE minimax(depth - 1, b1, -Inf, Inf, maximize))

\* the root loop once move number i has been pushed, giving b1
minimax_root_pushed(depth, b1, maximize, moves, i, best_move, best_move_found, lg) ==
    minimax_root_update(depth, maximize, moves, i, best_move, best_move_found,
                        lg \o <<Ev("push", b1, depth, maximize),
                                Ev("can_claim_draw", b1, depth, maximize)>>,
                        IF can_claim_draw(b1)
                        THEN Result(0, b1, <<>>, "none")
                        ELSE minimax(depth - 1, b1, -Inf, Inf, ~maximize))

\* the loop of minimax_root from move number i on
minimax_root_loop(depth, b, maximize, moves, i, best_move, best_move_found, lg) ==
    IF i > Len(moves) THEN Result(PyMove(best_move_found), b, lg, "none")
    ELSE minimax_root_pushed(depth, push(b, moves[i]), maximize, moves, i,
                             best_move, best_move_found, lg)

\* minimax_root returning None, without an error, where no move is legal
minimax_root_moves_none(depth, b, maximize, moves) ==
    IF Len(moves) = 0
    THEN Result(PyNone, b,
                <<Ev("minimax_root", b, depth, maximize),
                  Ev("legal_moves", b, depth, maximize)>>, "none")
    ELSE minimax_root_loop(depth, b, maximize, moves, 1,
                           IF ~maximize THEN Inf ELSE -Inf, moves[1],
                           <<Ev("minimax_root", b, depth, maximize),
                             Ev("legal_moves", b, depth, maximize)>>)

\* minimax_root once legal_moves has been listed
minimax_root_moves(depth, b, maximize, moves) ==
    IF Len(moves) = 0
    THEN Result(PyNone, b,
                <<Ev("minimax_root", b, depth, maximize),
                  Ev("legal_moves", b, depth, maximize)>>, "IndexError")
    ELSE minimax_root_loop(depth, b, maximize, moves, 1,
                           IF ~maximize THEN Inf ELSE -Inf, moves[1],
                           <<Ev("minimax_root", b, depth, maximize),
                             Ev("legal_moves", b, depth, maximize)>>)

minimax_root(depth, b) ==
    minimax_root_moves(depth, b, b.turn = WHITE, legal_moves(b))

(***************************************************************************)
(* Opening book.  A UCI move identifier is the pair of its squares, a FEN   *)
(* is the record of its six fields.                                         *)
(***************************************************************************)
\* number of repertoire lines of the literal that the model replays before
\* the last one
BookLines == 4

\* lines of the tscp_op literal, in the literal's order
tscp_lines ==
    <<
       \* g1f3 g8f6 c2c4 b7b6 g2g3
       << <<6, 21>>, <<62, 45>>, <<10, 26>>, <<49, 41>>, <<14, 22>> >>,
       \* g1f3 g8f6 c2c4 c7c5 g2g3
       << <<6, 21>>, <<62, 45>>, <<10, 26>>, <<50, 34>>, <<14, 22>> >>,
       \* g1f3 d7d5 g2g3
       << <<6, 21>>, <<51, 35>>, <<14, 22>> >>,
       \* c2c4 c7c6
       << <<10, 26>>, <<50, 42>> >>,
       \* e2e4 d7d5 e4d5
       << <<12, 28>>, <<51, 35>>, <<28, 35>> >>,
       \* e2e4 e7e5 f2f4
       << <<12, 28>>, <<52, 36>>, <<13, 29>> >>
    >>

\* the last line of the literal: the replay loop ends on it
\* g2g3
tscp_last == << <<14, 22>> >>

tscp_op == Append(SubSeq(tscp_lines, 1, BookLines), tscp_last)

\* chess.Move.from_uci
from_uci(uci) == Move(uci[1], uci[2])

\* chess.Board(): the starting position
StartPlacement ==
    LET back == <<ROOK, KNIGHT, BISHOP, QUEEN, KING, BISHOP, KNIGHT, ROOK>>
    IN  [s \in SQUARES |->
            IF s < 8 THEN Piece(back[s + 1], WHITE)
            ELSE IF s < 16 THEN Piece(PAWN, WHITE)
            ELSE IF s >= 56 THEN Piece(back[s - 55], BLACK)
            ELSE IF s >= 48 THEN Piece(PAWN, BLACK)
            ELSE None]

StartBoard == SetUp(StartPlacement, WHITE, {0, 7, 56, 63}, 1)

\* board.fen(): the en-passant field is written only when a pawn of the
\* side to move stands next to the pawn that just advanced
fen(b) ==
    LET ep == b.ep_square
        capturers == IF ep = -1 THEN {}
                     ELSE {s \in SQUARES :
                             /\ square_rank(s) = (IF b.turn = WHITE THEN 4 ELSE 3)
                             /\ Abs(square_file(s) - square_file(ep)) = 1
                             /\ b.placement[s] = Piece(PAWN, b.turn)}
    IN  [placement |-> b.placement, turn |-> b.turn,
         castling |-> b.castling_rights,
         ep |-> IF capturers = {} THEN -1 ELSE ep,
         halfmove |-> b.halfmove_clock, fullmove |-> b.fullmove_number]

\* chess.Board(fen)
BoardOfFen(f) ==
    [placement |-> f.placement, turn |-> f.turn, castling_rights |-> f.castling,
     ep_square |-> f.ep, halfmove_clock |-> f.halfmove,
     fullmove_number |-> f.fullmove, move_stack |-> <<>>, stack |-> <<>>]

is_equivalent(f, board2) ==
    LET board1 == BoardOfFen(f)
    IN  \A square \in SQUARES : piece_at(board1, square) = piece_at(board2, square)

\* openning.index(move): the first position of move in the line
index(openning, move) ==
    CHOOSE i \in 1..Len(openning) :
        /\ openning[i] = move
        /\ \A j \in 1..(i - 1) : openning[j] # move

RECURSIVE replay(_, _, _, _)

\* the inner loop once move number k has been pushed, giving b1: the entry
\* is the FEN of b1 and the move after the first occurrence of move number k
replay_pushed(openning, k, b1, Openning) ==
    replay(openning, k + 1, b1,
           Append(Openning,
                  <<fen(b1),
                    IF index(openning, openning[k]) + 1 <= Len(openning)
                    THEN PyStr(openning[index(openning, openning[k]) + 1])
                    ELSE PyNone>>))

\* the inner loop of the book construction from move number k on: b is the
\* board the loop variable names, Openning the entries recorded so far
replay(openning, k, b, Openning) ==
    IF k > Len(openning) THEN [board |-> b, Openning |-> Openning]
    ELSE replay_pushed(openning, k, push(b, from_uci(openning[k])), Openning)

RECURSIVE build_book(_, _, _)

\* the outer loop once line n has been replayed with result r
build_book_line(n, book, r) == build_book(n + 1, r.board, Append(book, r.Openning))

\* the outer loop from repertoire line n on: b is what the name board is
\* bound to, book the lines recorded so far
build_book(n, b, book) ==
    IF n > Len(tscp_op) THEN [board |-> b, book |-> book]
    ELSE build_book_line(n, book, replay(tscp_op[n], 1, StartBoard, <<>>))

\* the book as the construction starts it: the seeded entry
seed_book == << << <<fen(StartBoard), PyStr(<<12, 28>>)>> >> >>

\* the next moves of the entries of couples that is_equivalent accepts
\* against the board b
matches(couples, b) ==
    LET hit(couple) == is_equivalent(couple[1], b)
    IN  [i \in 1..Len(SelectSeq(couples, hit)) |-> SelectSeq(couples, hit)[i][2]]

\* liste once the book is built: built.board is what the name board is
\* bound to when the construction loop is over
liste_of(built) == matches(Concat(built.book), built.board)

\* the list the lookup draws from
book_liste(b) == liste_of(build_book(1, b, seed_book))

\* random.choice(liste) taking element number choice, None when it raises
choice_of(liste, choice) == IF liste = <<>> THEN PyNone ELSE liste[choice]

\* move_from_book, with random.choice taking element number choice
move_from_book(b, choice) == choice_of(book_liste(b), choice)

\* the depth search hands to minimax_root
SearchDepth == 3

\* the result of search with r the result of the call it delegates to
search_result(b, r) ==
    Result(r.value, r.board, <<Ev("move_from_book", b, 0, b.turn)>> \o r.log, r.error)

\* search with an early-game branch that plays a legal move unexamined
search_after_book_early_game(b, move) ==
    IF b.fullmove_number < 3 /\ legal_moves(b) # <<>>
    THEN Result(PyMove(legal_moves(b)[1]), b,
                <<Ev("legal_moves", b, 0, b.turn)>>, "none")
    ELSE IF move # PyNone
    THEN search_result(b, Result(move, b, <<>>, "none"))
    ELSE search_result(b, minimax_root(SearchDepth, b))

\* search with the tree search run whatever the book returned
search_after_book_search_first(b, move) ==
    search_result(b, minimax_root(SearchDepth, b))

\* search with the tree search one ply short
search_after_book_shallow(b, move) ==
    IF move # PyNone
    THEN search_result(b, Result(move, b, <<>>, "none"))
    ELSE search_result(b, minimax_root(SearchDepth - 1, b))

\* search once move_from_book has returned move
search_after_book(b, move) ==
    IF move # PyNone
    THEN search_result(b, Result(move, b, <<>>, "none"))
    ELSE search_result(b, minimax_root(SearchDepth, b))

search(b, choice) == search_after_book(b, move_from_book(b, choice))

\* search_with_ponder searching one ply short when the mover's clock is at 0
search_with_ponder_timed(b, wtime, btime, winc, binc, ponder, choice) ==
    LET timeleft == IF b.turn THEN wtime ELSE btime
    IN  IF timeleft = 0
        THEN search_after_book_shallow(b, move_from_book(b, choice))
        ELSE search(b, choice)

search_with_ponder(b, wtime, btime, winc, binc, ponder, choice) ==
    LET timeleft == IF b.turn THEN wtime ELSE btime
    IN  search(b, choice)

(***************************************************************************)
(* Bounds of the model.                                                    *)
(***************************************************************************)
\* largest depth handed to minimax and minimax_root
MaxDepth == 3
\* the checkmate, stalemate, dead or drawable position of a game lies within
\* this many plies of the root
MaxSpecialPly == 2
\* most queens and most minor pieces set up beside the piece under test
MaxQueens == 3
MaxMinors == 2

\* longest repertoire sequence handed to the construction of a book line
MaxLine == 6

\* (alpha, beta) windows minimax is called with
Windows == {<<-Inf, Inf>>, <<-Inf, 0>>, <<0, Inf>>, <<-30, 30>>}

(***************************************************************************)
(* Initial states.                                                         *)
(***************************************************************************)
Range(f) == {f[i] : i \in DOMAIN f}

\* "claimable mate": a checkmate in which a draw can be claimed as well
Kinds == {"mate", "stalemate", "dead", "claim", "claimable mate"}

\* the rules of a game in which the position reached by path is of the kind
MkRules(steps, movers, kind, path) ==
    [steps |-> steps, movers |-> movers,
     mate |-> IF kind \in {"mate", "claimable mate"} THEN {path} ELSE {},
     stalemate |-> IF kind = "stalemate" THEN {path} ELSE {},
     dead |-> IF kind = "dead" THEN {path} ELSE {},
     claim |-> IF kind \in {"claim", "claimable mate"} THEN {path} ELSE {}]

RECURSIVE Paths(_, _, _, _)
\* the move stacks of the positions within d plies of b
Paths(b, steps, movers, d) ==
    {b.move_stack} \cup
    IF d = 0 THEN {}
    ELSE UNION {Paths(push(b, m), steps, movers, d - 1) :
                    m \in Range(StepMoves(b, steps, movers))}

Idle(b) == [op |-> "none", board0 |-> b, args |-> <<>>]

NoRet == [value |-> PyNone, error |-> "none"]

\* squares of the queens and minor pieces set beside the piece under test
QueenSquares == <<3, 59, 24, 39, 31, 32>>
MinorSquares == <<2, 57, 18, 45, 21, 42>>

EvalPlacement(nq, nm, piece, sq) ==
    [s \in SQUARES |->
        IF \E i \in 1..nq : QueenSquares[i] = s
        THEN Piece(QUEEN, (CHOOSE i \in 1..nq : QueenSquares[i] = s) % 2 = 1)
        ELSE IF \E i \in 1..nm : MinorSquares[i] = s
        THEN LET i == CHOOSE j \in 1..nm : MinorSquares[j] = s
             IN  Piece(IF i % 2 = 1 THEN BISHOP ELSE KNIGHT, i % 2 = 1)
        ELSE IF s = sq THEN piece
        ELSE None]

\* positions for the evaluator: up to MaxQueens queens and MaxMinors minor
\* pieces, and one more piece of any kind on any free square (or none)
InitEval ==
    /\ \E nq \in 0..MaxQueens, nm \in 0..MaxMinors,
          piece \in Pieces \cup {None}, sq \in SQUARES, turn \in BOOLEAN :
          /\ piece = None => sq = 0
          /\ \A i \in 1..nq : QueenSquares[i] # sq
          /\ \A i \in 1..nm : MinorSquares[i] # sq
          /\ board = SetUp(EvalPlacement(nq, nm, piece, sq), turn, {}, 20)
    /\ rules = MkRules(<<>>, {}, "none", <<>>)
    /\ call = Idle(board)
    /\ ret = NoRet
    /\ log = <<>>

\* the games searched: the square of the white piece (c3, d3) and the step
\* offsets of the rules
Games == {<<18, <<8, 9>>>>, <<19, <<7, 16>>>>}

\* positions for the search: the kings at home, a white piece on c3 or d3
\* and a black piece on d5, either side to move
SearchPlacement(tw, a, tb, bs) ==
    [s \in SQUARES |->
        IF s = 4 THEN Piece(KING, WHITE)
        ELSE IF s = 60 THEN Piece(KING, BLACK)
        ELSE IF s = a THEN Piece(tw, WHITE)
        ELSE IF s = bs THEN Piece(tb, BLACK)
        ELSE None]

\* the move stacks of the positions two plies from b: a game in which all
\* of them are checkmate is lost for the side to move at b whatever it plays
Replies(b, steps, movers) == {p \in Paths(b, steps, movers, 2) : Len(p) = Len(b.move_stack) + 2}

InitSearch ==
    /\ \E tw \in {KNIGHT, QUEEN}, tb \in {PAWN, ROOK}, g \in Games,
          turn \in BOOLEAN :
          LET steps == g[2]
              root == SetUp(SearchPlacement(tw, g[1], tb, 35), turn, {}, 20)
              movers == PieceTypes \ {KING}
          IN  /\ board = root
              /\ \/ rules = MkRules(steps, movers, "none", <<>>)
                 \/ \E kind \in Kinds, path \in Paths(root, steps, movers, MaxSpecialPly) :
                       rules = MkRules(steps, movers, kind, path)
                 \/ rules = [MkRules(steps, movers, "none", <<>>)
                                EXCEPT !.mate = Replies(root, steps, movers)]
    /\ call = Idle(board)
    /\ ret = NoRet
    /\ log = <<>>

RECURSIVE Played(_, _)
\* the board after the first k moves of a line, played from the start
Played(line, k) ==
    IF k = 0 THEN StartBoard ELSE push(Played(line, k - 1), from_uci(line[k]))

\* positions for the selector: the host's board after any number of moves
\* of any repertoire line (or of the line 1. e4 e5 2. Nc3 Nc6 outside the
\* model's excerpt), also with the other side to move; in the games played
\* from there only the knights move, by one of their jumps
OffBook == << <<12, 28>>, <<52, 36>>, <<1, 18>>, <<57, 42>> >>

InitSelect ==
    /\ \E line \in Range(tscp_op) \cup {OffBook}, flip \in BOOLEAN :
          \E k \in 0..Len(line) :
             LET b == Played(line, k)
             IN  board = IF flip THEN [b EXCEPT !.turn = ~b.turn] ELSE b
    /\ \E steps \in {<<15>>, <<17>>} :
          \/ rules = MkRules(steps, {KNIGHT}, "none", <<>>)
          \/ \E kind \in Kinds : rules = MkRules(steps, {KNIGHT}, kind, board.move_stack)
    /\ call = Idle(board)
    /\ ret = NoRet
    /\ log = <<>>

(***************************************************************************)
(* Operations: the host calls one function of the engine on its board.     *)
(***************************************************************************)
\* the knight moves of the sequences handed to the construction of a book
\* line: a knight leaves its home square or goes back to it
Hops == {<<6, 21>>, <<21, 6>>, <<1, 18>>, <<18, 1>>,
         <<62, 45>>, <<45, 62>>, <<57, 42>>, <<42, 57>>}

RECURSIVE LinesFrom(_, _)
\* the sequences of at most n hops that can be played from b
LinesFrom(b, n) ==
    {<<>>} \cup
    IF n = 0 THEN {}
    ELSE UNION {{<<m>> \o rest : rest \in LinesFrom(push(b, from_uci(m)), n - 1)} :
                    m \in {h \in Hops : /\ b.placement[h[1]] = Piece(KNIGHT, b.turn)
                                       /\ b.placement[h[2]] = None}}

\* repertoire sequences: those of the literal and the knight manoeuvres of
\* at most MaxLine moves, in which a move identifier can come back
Repertoires == Range(tscp_op) \cup (LinesFrom(StartBoard, MaxLine) \ {<<>>})

\* the book construction at the start of move_from_book
InitBook ==
    /\ board = StartBoard
    /\ rules = MkRules(<<>>, {}, "none", <<>>)
    /\ call = Idle(board)
    /\ ret = NoRet
    /\ log = <<>>

\* the call c has run with result r: its value, the board it leaves, its log
Returns(c, r) ==
    /\ call' = c
    /\ ret' = [value |-> r.value, error |-> r.error]
    /\ board' = r.board
    /\ log' = r.log
    /\ UNCHANGED rules

Call_check_end_game ==
    /\ call.op = "none"
    /\ Returns([op |-> "check_end_game", board0 |-> board, args |-> <<>>],
               Result(check_end_game(board), board, <<>>, "none"))

Call_evaluate_board ==
    /\ call.op = "none"
    /\ Returns([op |-> "evaluate_board", board0 |-> board, args |-> <<>>],
               Result(evaluate_board(board), board, <<>>, "none"))

Call_minimax ==
    /\ call.op = "none"
    /\ \E depth \in 0..MaxDepth, w \in Windows, is_maximising_player \in BOOLEAN :
          Returns([op |-> "minimax", board0 |-> board,
                   args |-> [depth |-> depth, alpha |-> w[1], beta |-> w[2],
                             is_maximising_player |-> is_maximising_player]],
                  minimax(depth, board, w[1], w[2], is_maximising_player))

Call_minimax_root ==
    /\ call.op = "none"
    /\ \E depth \in 1..MaxDepth :
          Returns([op |-> "minimax_root", board0 |-> board,
                   args |-> [depth |-> depth]],
                  minimax_root(depth, board))

\* the elements random.choice may take from a list
Choices(liste) == IF liste = <<>> THEN {1} ELSE 1..Len(liste)

Call_move_from_book ==
    /\ call.op = "none"
    /\ \E choice \in Choices(book_liste(board)) :
          Returns([op |-> "move_from_book", board0 |-> board, args |-> <<>>],
                  Result(move_from_book(board, choice), board, <<>>, "none"))

Call_search ==
    /\ call.op = "none"
    /\ \E choice \in Choices(book_liste(board)) :
          Returns([op |-> "search", board0 |-> board, args |-> <<>>],
                  search(board, choice))

\* clock times (ms) the host passes
Times == {0, 60000}

\* the clocks the host passes: (wtime, btime, winc, binc) in ms, each of
\* the four taking two values
Clocks ==
    (Times \X Times \X {0} \X {0})
        \cup {<<0, 0, 1000, 0>>, <<0, 0, 0, 1000>>, <<60000, 60000, 1000, 1000>>}

Call_search_with_ponder ==
    /\ call.op = "none"
    /\ \E choice \in Choices(book_liste(board)), clock \in Clocks,
          ponder \in BOOLEAN :
          Returns([op |-> "search_with_ponder", board0 |-> board,
                   args |-> [wtime |-> clock[1], btime |-> clock[2],
                             winc |-> clock[3], binc |-> clock[4],
                             ponder |-> ponder]],
                  search_with_ponder(board, clock[1], clock[2], clock[3],
                                     clock[4], ponder, choice))

\* the body of the construction loop run on one repertoire sequence: the
\* entries it records for the sequence
Call_book_line ==
    /\ call.op = "none"
    /\ \E openning \in Repertoires :
          Returns([op |-> "book_line", board0 |-> board,
                   args |-> [openning |-> openning]],
                  Result(replay(openning, 1, StartBoard, <<>>).Openning,
                         board, <<>>, "none"))

\* the construction of the whole book from the literal repertoire
Call_build_book ==
    /\ call.op = "none"
    /\ Returns([op |-> "build_book", board0 |-> board, args |-> <<>>],
               Result(build_book(1, board, seed_book).book, board, <<>>, "none"))

NextEval == Call_check_end_game \/ Call_evaluate_board

NextSearch == Call_minimax \/ Call_minimax_root \/ Call_search

NextBook == Call_book_line \/ Call_build_book

NextSelect == Call_move_from_book \/ Call_search \/ Call_search_with_ponder

SpecEval == InitEval /\ [][NextEval]_vars

SpecSearch == InitSearch /\ [][NextSearch]_vars

SpecSelect == InitSelect /\ [][NextSelect]_vars

SpecBook == InitBook /\ [][NextBook]_vars

(***************************************************************************)
(* Properties.                                                             *)
(***************************************************************************)
LogOps == {log[i].op : i \in DOMAIN log}

NumOps(op) == Cardinality({i \in DOMAIN log : log[i].op = op})

\* C1: when minimax or minimax_root has returned, the board is what it was
\* when the call began: placement, side to move, rights, counters and both
\* stacks
C1_BoardRestored ==
    (call.op \in {"minimax", "minimax_root"} /\ ret.error = "none")
        => board = call.board0

\* a minimax call that applied moves and left through the cutoff return
C1_Witness ==
    /\ call.op = "minimax"
    /\ call.args.depth = MaxDepth
    /\ "cutoff" \in LogOps
    /\ NumOps("push") >= 3
    /\ NumOps("push") = NumOps("pop")
    /\ board = call.board0

RECURSIVE full_minimax(_, _, _)
\* minimax of the same depth without bounds: every move is searched
full_minimax(depth, b, maxi) ==
    IF is_checkmate(b) THEN (IF maxi THEN -Inf ELSE Inf)
    ELSE IF is_game_over(b) THEN 0
    ELSE IF depth = 0 THEN evaluate_board(b)
    ELSE LET moves == legal_moves(b)
             v(i) == full_minimax(depth - 1, push(b, moves[i]), ~maxi)
         IN  IF maxi
             THEN CHOOSE x \in {v(i) : i \in 1..Len(moves)} :
                      \A j \in 1..Len(moves) : v(j) <= x
             ELSE CHOOSE x \in {v(i) : i \in 1..Len(moves)} :
                      \A j \in 1..Len(moves) : v(j) >= x

RECURSIVE full_nodes(_, _)
\* the number of positions the unbounded minimax visits
full_nodes(depth, b) ==
    IF is_game_over(b) \/ depth = 0 THEN 1
    ELSE LET moves == legal_moves(b)
             n[i \in 0..Len(moves)] ==
                 IF i = 0 THEN 0
                 ELSE n[i - 1] + full_nodes(depth - 1, push(b, moves[i]))
         IN  1 + n[Len(moves)]

\* the value the root driver gives root move m when built on full_minimax
full_root_value(depth, b, m) ==
    LET b1 == push(b, m)
    IN  IF can_claim_draw(b1) THEN 0
        ELSE full_minimax(depth - 1, b1, ~(b.turn = WHITE))

\* C2: with the window (-inf, +inf) minimax returns the score of the
\* unbounded minimax of the same depth, and minimax_root returns the move
\* the unbounded root driver prefers whenever that move is unique
C2_AlphaBetaEquivalence ==
    /\ (/\ call.op = "minimax"
        /\ call.args.alpha = -Inf
        /\ call.args.beta = Inf)
          => ret.value = full_minimax(call.args.depth, call.board0,
                                      call.args.is_maximising_player)
    /\ (call.op = "minimax_root" /\ ret.error = "none")
          => LET b == call.board0
                 moves == legal_moves(b)
                 v(i) == full_root_value(call.args.depth, b, moves[i])
                 optimal == {i \in 1..Len(moves) :
                               \A j \in 1..Len(moves) :
                                  IF b.turn = WHITE THEN v(j) <= v(i)
                                                    ELSE v(j) >= v(i)}
             IN  Cardinality(optimal) = 1
                    => \A i \in optimal : ret.value = PyMove(moves[i])

\* a full-window search of the largest depth that pruned part of the tree
C2_Witness ==
    /\ call.op = "minimax"
    /\ call.args.alpha = -Inf
    /\ call.args.beta = Inf
    /\ call.args.depth = MaxDepth
    /\ NumOps("minimax") < full_nodes(call.args.depth, call.board0)
    /\ ret.value \notin {-Inf, 0, Inf}

\* C3: on a checkmate position minimax returns -inf for the maximising
\* role and +inf for the minimising role at every depth, depth 0 included,
\* and applies no move
C3_CheckmateScore ==
    (call.op = "minimax" /\ is_checkmate(call.board0))
        => /\ ret.value = IF call.args.is_maximising_player THEN -Inf ELSE Inf
           /\ LogOps = {"minimax"}

\* minimax at depth 0 on a checkmate position, maximising
C3_Witness ==
    /\ call.op = "minimax"
    /\ is_checkmate(call.board0)
    /\ call.args.depth = 0
    /\ call.args.is_maximising_player
    /\ ret.value = -Inf

\* C4: on a position that is game over but not checkmate minimax returns 0
\* whatever the depth, window and role, without evaluating or applying a move
C4_GameOverScore ==
    (/\ call.op = "minimax"
     /\ ~is_checkmate(call.board0)
     /\ is_game_over(call.board0))
        => /\ ret.value = 0
           /\ LogOps = {"minimax"}

\* minimax at a positive depth on a dead position that still has legal moves
C4_Witness ==
    /\ call.op = "minimax"
    /\ call.board0.move_stack \in rules.dead
    /\ legal_moves(call.board0) # <<>>
    /\ call.args.depth > 0
    /\ evaluate_board(call.board0) # 0
    /\ ret.value = 0

\* C5: at depth 0 on a position that is not game over minimax returns
\* evaluate_board of the position for every window and role, and
\* enumerates no moves
C5_LeafScore ==
    (/\ call.op = "minimax"
     /\ call.args.depth = 0
     /\ ~is_game_over(call.board0))
        => /\ ret.value = evaluate_board(call.board0)
           /\ LogOps = {"minimax", "evaluate_board"}

\* a depth-0 call in the minimising role with a narrowed window
C5_Witness ==
    /\ call.op = "minimax"
    /\ call.args.depth = 0
    /\ ~is_game_over(call.board0)
    /\ ~call.args.is_maximising_player
    /\ call.args.alpha = 0
    /\ ret.value \notin {0, -Inf, Inf}

\* the square of the same file on the vertically mirrored rank
MirrorSquare(s) == 8 * (7 - square_rank(s)) + square_file(s)

\* the position with every piece on the mirrored square in the other colour
MirrorBoard(b) ==
    [b EXCEPT !.placement =
        [s \in SQUARES |->
            LET p == b.placement[MirrorSquare(s)]
            IN  IF p = None THEN None ELSE Piece(p.piece_type, ~p.color)]]

\* C6: evaluate_board of the colour-swapped, vertically mirrored position
\* is the negation of evaluate_board of the position
C6_Antisymmetric ==
    call.op = "evaluate_board"
        => evaluate_board(MirrorBoard(call.board0)) = -ret.value

RECURSIVE CountFrom(_, _, _)
\* how many of the squares square..63 hold a piece of one of the types
CountFrom(b, types, square) ==
    IF square > 63 THEN 0
    ELSE (IF b.placement[square].piece_type \in types THEN 1 ELSE 0)
         + CountFrom(b, types, square + 1)

\* C7: check_end_game is true iff there is no queen, or there are exactly
\* two queens and at most one minor piece; it leaves the position alone
C7_EndGameRule ==
    call.op = "check_end_game"
        => LET queens == CountFrom(call.board0, {QUEEN}, 0)
               minors == CountFrom(call.board0, {BISHOP, KNIGHT}, 0)
           IN  /\ ret.value = (queens = 0 \/ (queens = 2 /\ minors <= 1))
               /\ queens = 1 => ~ret.value
               /\ (queens = 2 /\ minors >= 2) => ~ret.value
               /\ queens >= 3 => ~ret.value
               /\ board = call.board0

\* check_end_game answered on two queens and one minor piece
C7_Witness ==
    /\ call.op = "check_end_game"
    /\ CountFrom(call.board0, {QUEEN}, 0) = 2
    /\ CountFrom(call.board0, {BISHOP, KNIGHT}, 0) = 1
    /\ ret.value

\* C8: move_from_book on the exact starting position returns a move
C8_StartHasBookMove ==
    (call.op = "move_from_book" /\ call.board0 = StartBoard)
        => ret.value # PyNone

\* the next moves recorded for the positions that have the placement of b
BookCandidates(b) ==
    LET couples == Concat(build_book(1, b, seed_book).book)
    IN  {couples[i][2] : i \in {j \in DOMAIN couples :
                                  /\ couples[j][1].placement = b.placement
                                  /\ couples[j][2] # PyNone}}

\* C9: move_from_book returns one of the non-none next moves recorded for
\* the positions with the placement of the position passed, and none only
\* when there is no such move
C9_BookCandidates ==
    call.op = "move_from_book"
        => /\ BookCandidates(call.board0) # {}
                 => ret.value \in BookCandidates(call.board0)
           /\ ret.value = PyNone => BookCandidates(call.board0) = {}

BookMoveIds == {<<12, 28>>} \cup UNION {Range(tscp_op[i]) : i \in DOMAIN tscp_op}

\* C11: search consults the book first; on a move identifier from the book
\* it returns that identifier and minimax_root is not invoked, and
\* minimax_root is invoked, once, only after the book has returned none
C11_BookBeforeSearch ==
    call.op = "search"
        => /\ log # <<>>
           /\ log[1].op = "move_from_book"
           /\ \A i \in DOMAIN log : log[i].op = "minimax_root" => i = 2
           /\ "minimax_root" \in LogOps
                 => PyNone \in Range(book_liste(call.board0))
           /\ ret.value.type = "str"
                 => /\ ret.value \in Range(book_liste(call.board0))
                    /\ LogOps = {"move_from_book"}
           /\ \A uci \in BookMoveIds :
                 LET r == search_after_book(call.board0, PyStr(uci))
                 IN  /\ r.value = PyStr(uci)
                     /\ r.error = "none"
                     /\ r.board = call.board0
                     /\ {r.log[i].op : i \in DOMAIN r.log} = {"move_from_book"}

\* search on a position the book records with a next move, where the book
\* returned none and the tree search then ran
C11_Witness ==
    /\ call.op = "search"
    /\ BookCandidates(call.board0) # {}
    /\ Len(log) > 2
    /\ log[1].op = "move_from_book"
    /\ log[2].op = "minimax_root"
    /\ ret.value.type = "Move"

\* C12: from full move 3 on, when the book gives no move, search returns
\* exactly what minimax_root of depth 3 returns on the position, whatever
\* random.choice does: two runs on the same position give the same result
C12_SearchIsMinimaxRoot ==
    (/\ call.op = "search"
     /\ call.board0.fullmove_number >= 3
     /\ Range(book_liste(call.board0)) \subseteq {PyNone})
        => /\ ret.value = minimax_root(SearchDepth, call.board0).value
           /\ ret.error = minimax_root(SearchDepth, call.board0).error
           /\ \A choice \in Choices(book_liste(call.board0)) :
                 /\ search(call.board0, choice).value = ret.value
                 /\ search(call.board0, choice).error = ret.error

\* search on a position of full move 3 that the book does not record,
\* answered with a move of the tree search
C12_Witness ==
    /\ call.op = "search"
    /\ call.board0.fullmove_number >= 3
    /\ BookCandidates(call.board0) = {}
    /\ Len(legal_moves(call.board0)) > 1
    /\ ret.error = "none"
    /\ ret.value = minimax_root(SearchDepth, call.board0).value

\* what a caller can observe of a run: the value or error returned, and
\* the calls made with their depths
Outcome(r) == [value |-> r.value, error |-> r.error, log |-> r.log]

\* C13: whatever wtime, btime, winc, binc and ponder are, search_with_ponder
\* returns what search returns on the position alone, after the same calls
\* at the same depths, the tree search at depth 3; the position is left as
\* it was
C13_TimeIrrelevant ==
    call.op = "search_with_ponder"
        => /\ Outcome([value |-> ret.value, error |-> ret.error, log |-> log])
                 \in {Outcome(search(call.board0, choice)) :
                          choice \in Choices(book_liste(call.board0))}
           /\ \A i \in DOMAIN log :
                 log[i].op = "minimax_root" => log[i].depth = SearchDepth
           /\ ret.error = "none" => board = call.board0

\* search_with_ponder called while pondering, with unequal clocks and an
\* increment, answered with a move of the tree search
C13_Witness ==
    /\ call.op = "search_with_ponder"
    /\ call.args.ponder
    /\ call.args.wtime # call.args.btime
    /\ "minimax" \in LogOps
    /\ ret.value.type = "Move"
    /\ (IF call.board0.turn THEN call.args.wtime ELSE call.args.btime) = 0

\* the value minimax_root of the depth gives the root move m of b: 0 where
\* a draw can be claimed after m, else what minimax returns after m
root_value(depth, b, m) ==
    IF can_claim_draw(push(b, m)) THEN 0
    ELSE minimax(depth - 1, push(b, m), -Inf, Inf, ~(b.turn = WHITE)).value

\* the root values of the legal moves of b, in the order of enumeration
root_values(depth, b) ==
    [i \in DOMAIN legal_moves(b) |-> root_value(depth, b, legal_moves(b)[i])]

\* whether value v is at least as good as w for the side to move at b
AsGood(b, v, w) == IF b.turn = WHITE THEN v >= w ELSE v <= w

\* C14: with a legal move at the root, minimax_root returns a legal move
\* whose root value no other root move betters, and of the moves with that
\* value the one enumerated last, also when every root value is -inf for
\* white or +inf for black
C14_RootOptimalLastTie ==
    (call.op = "minimax_root" /\ legal_moves(call.board0) # <<>>)
        => LET b == call.board0
               moves == legal_moves(b)
               v == root_values(call.args.depth, b)
           IN  /\ ret.error = "none"
               /\ ret.value.type = "Move"
               /\ \E k \in DOMAIN moves :
                     /\ ret.value = PyMove(moves[k])
                     /\ \A j \in DOMAIN moves : AsGood(b, v[k], v[j])
                     /\ \A j \in DOMAIN moves : j > k => v[j] # v[k]

\* minimax_root with white to move and several root moves, every one of
\* value -inf: the move enumerated last is returned
C14_Witness ==
    /\ call.op = "minimax_root"
    /\ call.board0.turn = WHITE
    /\ Len(legal_moves(call.board0)) >= 2
    /\ \A i \in DOMAIN legal_moves(call.board0) :
          root_values(call.args.depth, call.board0)[i] = -Inf
    /\ ret.value = PyMove(legal_moves(call.board0)[Len(legal_moves(call.board0))])

\* a call that ended in an error: no value, no move applied, the position
\* as it was
EndedInError ==
    /\ ret.error # "none"
    /\ ret.value = PyNone
    /\ "push" \notin LogOps
    /\ board = call.board0

\* C15 as stated: minimax_root on a position without legal moves ends in an
\* error before any move is applied, and so does search on every game-over
\* position the book gives no move for
C15_GameOverIsError ==
    /\ (call.op = "minimax_root" /\ legal_moves(call.board0) = <<>>)
          => EndedInError
    /\ (/\ call.op = "search"
        /\ is_game_over(call.board0)
        /\ Range(book_liste(call.board0)) \subseteq {PyNone})
          => EndedInError

\* C15 amended: minimax_root on a position without legal moves ends in an
\* error before any move is applied, and so does search when the book gives
\* no move for such a position; on a game-over position that has legal
\* moves search returns the move of minimax_root
C15_NoLegalMoveIsError ==
    /\ (call.op = "minimax_root" /\ legal_moves(call.board0) = <<>>)
          => EndedInError
    /\ (/\ call.op = "search"
        /\ legal_moves(call.board0) = <<>>
        /\ Range(book_liste(call.board0)) \subseteq {PyNone})
          => /\ EndedInError
             /\ is_game_over(call.board0)
    /\ (/\ call.op = "search"
        /\ is_game_over(call.board0)
        /\ legal_moves(call.board0) # <<>>
        /\ Range(book_liste(call.board0)) \subseteq {PyNone})
          => /\ ret.error = "none"
             /\ ret.value = minimax_root(SearchDepth, call.board0).value
             /\ ret.value.type = "Move"

\* search on a stalemate or checkmate position ended in the error of
\* minimax_root
C15_Witness ==
    /\ call.op = "search"
    /\ is_game_over(call.board0)
    /\ legal_moves(call.board0) = <<>>
    /\ "minimax_root" \in LogOps
    /\ ret.error = "IndexError"
    /\ board = call.board0

\* base value of a piece type
BaseValue(t) ==
    CASE t = PAWN -> 100 [] t = KNIGHT -> 320 [] t = BISHOP -> 330
      [] t = ROOK -> 500 [] t = QUEEN -> 900 [] t = KING -> 200000

\* the piece-square table of a type and colour; only the king's depends on
\* the phase
TableOf(t, color, endgame) ==
    CASE t = PAWN   -> IF color = WHITE THEN pawnWhiteTable ELSE pawnBlackTable
      [] t = KNIGHT -> IF color = WHITE THEN knightWhiteTable ELSE knightBlackTable
      [] t = BISHOP -> IF color = WHITE THEN bishopWhiteTable ELSE bishopBlackTable
      [] t = ROOK   -> IF color = WHITE THEN rookWhiteTable ELSE rookBlackTable
      [] t = QUEEN  -> IF color = WHITE THEN queenWhiteTable ELSE queenBlackTable
      [] t = KING /\ endgame
                    -> IF color = WHITE THEN kingWhiteEndgameTable
                                        ELSE kingBlackEndgameTable
      [] t = KING /\ ~endgame
                    -> IF color = WHITE THEN kingWhiteMiddlegameTable
                                        ELSE kingBlackMiddlegameTable

RECURSIVE ScoreFrom(_, _, _)
\* the signed sum of base value and table offset over the squares square..63
ScoreFrom(b, square, endgame) ==
    IF square > 63 THEN 0
    ELSE LET p == b.placement[square]
         IN  (IF p.piece_type = 0 THEN 0
              ELSE (IF p.color = WHITE THEN 1 ELSE -1)
                   * (BaseValue(p.piece_type)
                      + TableOf(p.piece_type, p.color, endgame)[square + 1]))
             + ScoreFrom(b, square + 1, endgame)

\* C16: evaluate_board is the sum over the 64 squares of sign * (base value
\* + table offset), +1 for white and -1 for black, empty squares counting
\* 0, the king on its endgame table iff check_end_game holds of the
\* position and no other piece depending on the phase; the position is
\* left as it was
C16_EvaluateFormula ==
    call.op = "evaluate_board"
        => /\ ret.value = ScoreFrom(call.board0, 0, check_end_game(call.board0))
           /\ board = call.board0

\* evaluate_board on a position with a king, two queens and one minor
\* piece, an endgame by check_end_game, scored on the king's endgame table
C16_Witness ==
    /\ call.op = "evaluate_board"
    /\ CountFrom(call.board0, {KING}, 0) = 1
    /\ CountFrom(call.board0, {QUEEN}, 0) = 2
    /\ CountFrom(call.board0, {BISHOP, KNIGHT}, 0) = 1
    /\ check_end_game(call.board0)
    /\ ret.value # ScoreFrom(call.board0, 0, FALSE)
    /\ ret.value = ScoreFrom(call.board0, 0, TRUE)

\* the moves applied and not yet undone when log entry i was made: the
\* length of the board's move stack beyond what it was at the call
Applied(i) == log[i].ply - Len(call.board0.move_stack)

\* C17: throughout a minimax or minimax_root execution every push adds one
\* applied move and every pop removes one, nothing else changes their
\* number; a minimax call of depth d runs with (root depth - d) moves
\* applied, one move is applied before each descent, and it is undone
\* before the next sibling is applied and before the caller goes on or
\* leaves through the cutoff; the number never exceeds the root depth and
\* is 0 at the end
C17_PlyInvariant ==
    (call.op \in {"minimax", "minimax_root"} /\ ret.error = "none")
        => LET D == call.args.depth
           IN  /\ Applied(1) = 0
               /\ Applied(Len(log)) = 0
               /\ \A i \in DOMAIN log :
                     /\ Applied(i) \in 0..D
                     /\ i > 1 =>
                           Applied(i) - Applied(i - 1) =
                               (IF log[i].op = "push" THEN 1
                                ELSE IF log[i].op = "pop" THEN -1 ELSE 0)
                     /\ log[i].op \in {"minimax", "minimax_root", "pop", "cutoff",
                                       "legal_moves", "evaluate_board"}
                           => Applied(i) = D - log[i].depth
                     /\ log[i].op = "push"
                           => /\ Applied(i) = D - log[i].depth + 1
                              /\ i < Len(log)
                              /\ log[i + 1].op \in {"minimax", "can_claim_draw"}
                     /\ (log[i].op = "minimax" /\ i > 1)
                           => log[i - 1].op \in {"push", "can_claim_draw"}
                     /\ log[i].op = "can_claim_draw"
                           => /\ log[i - 1].op = "push"
                              /\ log[i + 1].op \in {"minimax", "pop"}
                     /\ log[i].op = "cutoff" => log[i - 1].op = "pop"

\* a minimax_root run of the largest depth that went down to the last ply
\* and had a cutoff on the way
C17_Witness ==
    /\ call.op = "minimax_root"
    /\ call.args.depth = MaxDepth
    /\ ret.error = "none"
    /\ "cutoff" \in LogOps
    /\ \E i \in DOMAIN log : Applied(i) = MaxDepth /\ log[i].op = "evaluate_board"
    /\ Applied(Len(log)) = 0

\* what minimax_root of the depth does for the root move m of b: apply it,
\* ask for a claimable draw, recurse with the full window unless there is
\* one, undo it
RootTrace(depth, b, m) ==
    <<Ev("push", push(b, m), depth, b.turn = WHITE),
      Ev("can_claim_draw", push(b, m), depth, b.turn = WHITE)>>
    \o (IF can_claim_draw(push(b, m)) THEN <<>>
        ELSE minimax(depth - 1, push(b, m), -Inf, Inf, ~(b.turn = WHITE)).log)
    \o <<Ev("pop", b, depth, b.turn = WHITE)>>

RECURSIVE RootTraces(_, _, _, _)
\* RootTrace of the moves number i and later, one after the other
RootTraces(depth, b, moves, i) ==
    IF i > Len(moves) THEN <<>>
    ELSE RootTrace(depth, b, moves[i]) \o RootTraces(depth, b, moves, i + 1)

\* C18: for each root move minimax_root asks for a claimable draw after the
\* move; where there is one it calls no minimax for the move and values it
\* 0, checkmate or not, and otherwise it runs and values the move by
\* minimax(depth - 1, position, -inf, +inf, opposite role), the window
\* being the full one for every root move
C18_RootDrawAndWindow ==
    (call.op = "minimax_root" /\ ret.error = "none")
        => LET b == call.board0
               D == call.args.depth
               moves == legal_moves(b)
           IN  /\ log = <<Ev("minimax_root", b, D, b.turn = WHITE),
                          Ev("legal_moves", b, D, b.turn = WHITE)>>
                        \o RootTraces(D, b, moves, 1)
               /\ \A i \in DOMAIN log :
                     (log[i].op = "can_claim_draw" /\ log[i].depth = D)
                        => \E m \in Range(moves) :
                              /\ log[i] = Ev("can_claim_draw", push(b, m), D, b.turn = WHITE)
                              /\ can_claim_draw(push(b, m)) <=> log[i + 1].op = "pop"
                              /\ ~can_claim_draw(push(b, m))
                                    <=> log[i + 1] = Ev("minimax", push(b, m), D - 1,
                                                        ~(b.turn = WHITE))
               /\ \E k \in DOMAIN moves :
                     /\ ret.value = PyMove(moves[k])
                     /\ \A j \in DOMAIN moves :
                           LET vj == IF can_claim_draw(push(b, moves[j])) THEN 0
                                     ELSE minimax(D - 1, push(b, moves[j]), -Inf, Inf,
                                                  ~(b.turn = WHITE)).value
                               vk == IF can_claim_draw(push(b, moves[k])) THEN 0
                                     ELSE minimax(D - 1, push(b, moves[k]), -Inf, Inf,
                                                  ~(b.turn = WHITE)).value
                           IN  IF b.turn = WHITE THEN vk >= vj ELSE vk <= vj

\* a minimax_root run of depth 2 or more in which one root move gives a
\* checkmate with a claimable draw, valued 0 without a minimax call, and
\* the other root moves are searched
C18_Witness ==
    /\ call.op = "minimax_root"
    /\ call.args.depth >= 2
    /\ ret.error = "none"
    /\ \E m \in Range(legal_moves(call.board0)) :
          /\ can_claim_draw(push(call.board0, m))
          /\ is_checkmate(push(call.board0, m))
          /\ root_value(call.args.depth, call.board0, m) = 0
    /\ Cardinality({i \in DOMAIN log : log[i].op = "minimax"
                                       /\ log[i].depth = call.args.depth - 1})
          = Len(legal_moves(call.board0)) - 1
    /\ Len(legal_moves(call.board0)) >= 2

\* the entries of a repertoire sequence m1..mn: entry i pairs the position
\* after m1..mi, played from the start, with m(i+1), and with none for i = n
ExpectedLine(line) ==
    [i \in 1..Len(line) |->
        <<fen(Played(line, i)),
          IF i < Len(line) THEN PyStr(line[i + 1]) ELSE PyNone>>]

C20_BlackTableReversed ==
    /\ \A t \in PieceTypes, endgame \in BOOLEAN :
          mapping(Piece(t, BLACK), endgame)
              = [i \in 1..64 |-> mapping(Piece(t, WHITE), endgame)[(63 - (i - 1)) + 1]]
    /\ \A s \in SQUARES, endgame \in BOOLEAN :
          (call.op # "none" /\ call.board0.placement[s].color = BLACK
                            /\ call.board0.placement[s] # None)
             => eval_piece(call.board0.placement[s], s, endgame)
                   = TableOf(call.board0.placement[s].piece_type, WHITE,
                             endgame)[(63 - s) + 1]

\* evaluate_board has scored a lone black queen on c2, reading the white
\* queen's value of f7 (square 53), which is not the value of c7, the
\* square of the same file on the mirrored rank
C20_Witness ==
    /\ call.op = "evaluate_board"
    /\ call.board0.placement[10] = Piece(QUEEN, BLACK)
    /\ CountFrom(call.board0, PieceTypes, 0) = 1
    /\ ret.value = -(900 + queenWhiteTable[53 + 1])
    /\ queenWhiteTable[53 + 1] # queenWhiteTable[MirrorSquare(10) + 1]

RECURSIVE BoardAt(_, _)
\* the position of the call after the moves the move stack path adds to
\* the move stack of the call's position
BoardAt(b, path) ==
    IF Len(path) <= Len(b.move_stack) THEN b
    ELSE push(BoardAt(b, SubSeq(path, 1, Len(path) - 1)), path[Len(path)])

\* log entry i applies a move that gives a position the root depth below
\* the root on which the game is not over
ReachesHorizon(i) ==
    /\ log[i].op = "push"
    /\ Applied(i) = call.args.depth
    /\ ~is_game_over(BoardAt(call.board0, log[i].path))

\* the position log entry i gives is scored by evaluate_board before the
\* move is undone
ScoredNext(i) ==
    \E j \in DOMAIN log :
        /\ j > i
        /\ log[j].op = "evaluate_board"
        /\ log[j].path = log[i].path
        /\ \A k \in i..j : Applied(k) = Applied(i)

\* the depths, plies and number of the minimax invocations of a root call
\* of depth D: depth arguments in 0..D-1, at D minus the depth plies below
\* the root, evaluate_board at depth 0 only and exactly where the game is
\* not over, and no more invocations than there are positions within D
\* plies of the root
DepthsBounded ==
    LET D == call.args.depth
    IN  /\ D >= 1
        /\ \A i \in DOMAIN log :
              /\ Applied(i) \in 0..D
              /\ log[i].op = "minimax"
                    => /\ log[i].depth \in 0..(D - 1)
                       /\ Applied(i) = D - log[i].depth
                       /\ log[i].depth = 0
                             => (~is_game_over(BoardAt(call.board0, log[i].path))
                                    <=> (/\ i < Len(log)
                                         /\ log[i + 1].op = "evaluate_board"
                                         /\ log[i + 1].path = log[i].path))
              /\ log[i].op = "evaluate_board"
                    => /\ log[i].depth = 0
                       /\ Applied(i) = D
                       /\ log[i - 1].op = "minimax"
        /\ NumOps("minimax")
              <= Cardinality(Paths(call.board0, rules.steps, rules.movers, D)) - 1

\* C21 as stated: minimax_root of depth d >= 1 returns after minimax
\* invocations of depths 0..d-1 only, none more than d plies below the
\* root, and every position d plies below the root that it reaches and on
\* which the game is not over is scored by evaluate_board
C21_DepthBoundedAllScored ==
    (call.op = "minimax_root" /\ ret.error = "none")
        => /\ DepthsBounded
           /\ \A i \in DOMAIN log : ReachesHorizon(i) => ScoredNext(i)

\* C21 amended: as stated, except that a position d plies below the root
\* is not scored by evaluate_board when d = 1 and a draw can be claimed on
\* it: the root values it 0 and invokes no minimax for it
C21_DepthBounded ==
    (call.op = "minimax_root" /\ ret.error = "none")
        => /\ DepthsBounded
           /\ \A i \in DOMAIN log :
                 ReachesHorizon(i)
                    => IF call.args.depth = 1
                          /\ can_claim_draw(BoardAt(call.board0, log[i].path))
                       THEN /\ ~ScoredNext(i)
                            /\ log[i + 1].op = "can_claim_draw"
                            /\ log[i + 2].op = "pop"
                       ELSE ScoredNext(i)

\* a minimax_root run of depth 2 or more with invocations at every depth
\* from 0 to the depth less one, positions scored at the last ply and a
\* game over met there too
C21_Witness ==
    /\ call.op = "minimax_root"
    /\ call.args.depth >= 2
    /\ ret.error = "none"
    /\ \A d \in 0..(call.args.depth - 1) :
          \E i \in DOMAIN log : log[i].op = "minimax" /\ log[i].depth = d
    /\ \E i \in DOMAIN log : ReachesHorizon(i) /\ ScoredNext(i)
    /\ \E i \in DOMAIN log :
          /\ log[i].op = "minimax"
          /\ log[i].depth = 0
          /\ is_game_over(BoardAt(call.board0, log[i].path))

\* C22: in every minimax invocation reached from minimax_root the role is
\* maximising exactly when white is to move on the position of the
\* invocation: the root's role is white-to-move, every applied move changes
\* the side to move and the role together, and on a checkmate the
\* invocation returns -inf with white to move and +inf with black to move
C22_RoleIsSideToMove ==
    (call.op \in {"minimax_root", "search"} /\ ret.error = "none")
        => \A i \in DOMAIN log :
              /\ log[i].op = "minimax_root"
                    => log[i].maxi = (call.board0.turn = WHITE)
              /\ log[i].op \in {"minimax", "minimax_root"}
                    => /\ log[i].maxi = (log[i].turn = WHITE)
                       /\ log[i].turn = BoardAt(call.board0, log[i].path).turn
                       /\ log[i].maxi = (IF Applied(i) % 2 = 0
                                         THEN call.board0.turn = WHITE
                                         ELSE call.board0.turn # WHITE)
              /\ log[i].op = "push"
                    => /\ log[i].turn # log[i - 1].turn
                       /\ log[i].maxi = log[i - 1].maxi
              /\ (/\ log[i].op = "minimax"
                  /\ is_checkmate(BoardAt(call.board0, log[i].path)))
                    => minimax(log[i].depth, BoardAt(call.board0, log[i].path),
                               -Inf, Inf, log[i].maxi).value
                          = (IF BoardAt(call.board0, log[i].path).turn = WHITE
                             THEN -Inf ELSE Inf)

\* a minimax_root run with black to move that met a checkmate of black two
\* plies down, in a minimising invocation
C22_Witness ==
    /\ call.op = "minimax_root"
    /\ call.board0.turn = BLACK
    /\ ret.error = "none"
    /\ \E i \in DOMAIN log :
          /\ log[i].op = "minimax"
          /\ Applied(i) = 2
          /\ ~log[i].maxi
          /\ log[i].turn = BLACK
          /\ is_checkmate(BoardAt(call.board0, log[i].path))
    /\ \E i \in DOMAIN log :
          log[i].op = "minimax" /\ Applied(i) = 1 /\ log[i].maxi

====
